---- MODULE Spec2Model ----
(***************************************************************************)
(* Model of op-test/planner.go: the scope tree of a test plan, the         *)
(* context-scoped parameter bindings, Select and the exhaustion of the     *)
(* options a scope discovered.                                             *)
(*                                                                         *)
(* A test body (the Go closure fn) is a finite sequence of calls on the    *)
(* scope it is handed: Select(name, options...), Plan(name, fn') and       *)
(* Run(name, fn').  testing.T.Run is synchronous (no t.Parallel), so the   *)
(* scopes that are running form one chain and the newest one executes.     *)
(* T.Fatalf and T.Skipf end the goroutine of the scope at once             *)
(* (runtime.Goexit): its body does not return and T.Run hands control      *)
(* back to the parent.  A panic ends the whole test process.               *)
(***************************************************************************)
EXTENDS Integers, Sequences, FiniteSets, TLC

\* Total number of calls (Select, Plan, Run; nested bodies included) in a body.
MaxSize == 3

Nil == "<nil>"

\* Parameter names, and the option lists the bodies present for "p";
\* "q" is always presented with QOptions.
Names == {"p", "q"}
OptionLists == {<<"a", "b", "c">>, <<"a", "c">>, <<"x", "y">>, <<"*">>}
QOptions == <<"x", "y">>

----------------------------------------------------------------------------
(* Test bodies *)

SelectInstr(name, options) ==
    [op |-> "Select", name |-> name, options |-> options, fn |-> <<>>]
PlanInstr(fn) == [op |-> "Plan", name |-> Nil, options |-> <<>>, fn |-> fn]
RunInstr(fn) == [op |-> "Run", name |-> Nil, options |-> <<>>, fn |-> fn]

\* if v, _ := t.Parameter(name); v == value { t.Fatalf(...) } (or t.Skipf)
CheckInstr(op, name, value) ==
    [op |-> op, name |-> name, options |-> <<value>>, fn |-> <<>>]

Selects ==
    {SelectInstr("p", o) : o \in OptionLists} \cup {SelectInstr("q", QOptions)}

Checks == {CheckInstr(op, "p", "b") : op \in {"Fatalf", "Skipf"}}

RECURSIVE FnSize(_)
FnSize(fn) ==
    IF fn = <<>> THEN 0
    ELSE 1 + FnSize(Head(fn).fn) + FnSize(Tail(fn))

\* Every body of at most n calls. A Planner body (func(t Planner)) may call
\* Plan and Run; an Executor body (func(t Executor), the body of a Run) is a
\* leaf and calls neither.
RECURSIVE Fns(_, _)
Fns(n, planner) ==
    IF n = 0 THEN {<<>>}
    ELSE LET instrs ==
                 IF planner
                 THEN Selects \cup Checks
                      \cup {PlanInstr(f) : f \in Fns(n - 1, TRUE)}
                      \cup {RunInstr(f) : f \in Fns(n - 1, FALSE)}
                 ELSE Selects \cup Checks
         IN {<<>>} \cup
            UNION {{<<i>> \o rest : rest \in Fns(n - 1 - FnSize(i.fn), planner)} :
                      i \in instrs}

----------------------------------------------------------------------------
(* ParameterSelector policies *)

RECURSIVE Reverse(_)
Reverse(s) == IF s = <<>> THEN <<>> ELSE Reverse(Tail(s)) \o <<Head(s)>>

Selectors == {"all", "rev", "skipq", "rogueFirst", "rogueLast"}

\* selector.Select(name, options)
SelectorSelect(selector, name, options) ==
    CASE selector = "all" -> options
      [] selector = "rev" -> Reverse(options)
      [] selector = "skipq" -> IF name = "q" THEN <<>> ELSE options
      [] selector = "rogueFirst" -> <<"z">> \o options
      [] selector = "rogueLast" -> options \o <<"z">>

----------------------------------------------------------------------------
(* Contexts *)

\* slices.Contains
Contains(s, v) == \E i \in 1..Len(s) : s[i] = v

\* context.Background() with the selector slot set
RootCtx(selector) ==
    [selector |-> selector, par |-> [n \in Names |-> Nil], cancel |-> <<>>]

\* Mutant of WithCancel: the new context is derived from context.Background().
WithCancelDetached(ctx, id) == [ctx EXCEPT !.cancel = <<id>>]

\* context.WithCancel(ctx) for the scope numbered id: cancel lists the scopes
\* whose cancel functions end the context, outermost first.
WithCancel(ctx, id) == [ctx EXCEPT !.cancel = Append(@, id)]

\* ctx.Value(parameterCtxKey(name))
Value(ctx, name) == ctx.par[name]

\* context.WithValue(ctx, parameterCtxKey(name), v)
WithValue(ctx, name, v) == [ctx EXCEPT !.par[name] = v]

NoSelection == [name |-> Nil, options |-> <<>>]

\* Mutant of Ctx: the context the scope was created with.
CtxAtCreation(imp) == imp.ctx0

\* imp.Ctx()
Ctx(imp) == imp.ctx

\* imp.Parameter(name)
Parameter(imp, name) ==
    LET v == Value(Ctx(imp), name) IN
    IF v = Nil THEN [value |-> "", ok |-> FALSE] ELSE [value |-> v, ok |-> TRUE]

----------------------------------------------------------------------------
VARIABLES
    entry,      \* "Plan": started by the package function Plan; "Scope": a root scope whose context carries a selector
    scopes,     \* every testImpl created so far, in creation order
    calls,      \* history: every Select call made so far
    panicked,   \* the test process died of a panic
    goroutines, \* the goroutines that call into one scope concurrently, and how far each is
    constructed \* history: how many loggers testlog.Logger has built

vars == <<entry, scopes, calls, panicked, goroutines, constructed>>

\* &testImpl{T: t, ctx: ctx, logLvl: ...}
NewScope(parent, kind, via, opt, ctx, fn) ==
    [parent |-> parent, kind |-> kind, via |-> via, opt |-> opt,
     ctx0 |-> ctx, ctx |-> ctx, parameterSelection |-> NoSelection,
     ctxLock |-> 0, loggerOnce |-> [done |-> FALSE, m |-> 0], logger |-> 0,
     fn |-> fn, pc |-> 1, phase |-> "body", i |-> 1,
     failed |-> FALSE, skipped |-> FALSE, status |-> "running"]

Running == {s \in 1..Len(scopes) : scopes[s].status = "running"}

\* Mutant of Active: T.Run does not wait for the sub-test it started.
ActiveOldest == CHOOSE s \in Running : \A r \in Running : s <= r

\* The scope whose goroutine executes: T.Run blocks its caller until the
\* sub-test is over, so it is the newest running one.
Active == CHOOSE s \in Running : \A r \in Running : r <= s

Busy == ~panicked /\ Running # {}

RECURSIVE IsAncestor(_, _)
\* a is s or a scope on the path from s up to the root
IsAncestor(a, s) ==
    IF s = 0 THEN FALSE
    ELSE IF a = s THEN TRUE
    ELSE IsAncestor(a, scopes[s].parent)

\* What the testing package reports for a test that is over.
Result(imp) ==
    IF imp.failed THEN "failed" ELSE IF imp.skipped THEN "skipped" ELSE "passed"

\* testing's Fail: the failure is recorded on the test of scope s and on
\* every enclosing test.
Fail(S, s) ==
    [k \in 1..Len(S) |-> IF IsAncestor(k, s) THEN [S[k] EXCEPT !.failed = TRUE] ELSE S[k]]

\* T.Fatalf: the test is marked failed and its goroutine ends.
FailNow(imp) == [imp EXCEPT !.failed = TRUE, !.status = "failed"]

\* T.Skipf: the test is marked skipped and its goroutine ends.
SkipNow(imp) ==
    LET m == [imp EXCEPT !.skipped = TRUE] IN [m EXCEPT !.status = Result(m)]

\* A panic in the goroutine of scope s: the testing package fails the test,
\* reports it and every enclosing test as failed and runs their clean-ups
\* before the process exits.
Panic(S, s) ==
    [k \in 1..Len(S) |-> IF IsAncestor(k, s) THEN FailNow(S[k]) ELSE S[k]]

\* The scopes once a call in scope s ended its goroutine: what the failure
\* or the panic leaves on the enclosing tests.
Ended(S, s, outcome) ==
    CASE outcome = "fatal" -> Fail(S, s)
      [] outcome = "panic" -> Panic(S, s)
      [] OTHER -> S

----------------------------------------------------------------------------
(* Select *)

HasWildcard(options) == Contains(options, "*")

\* Mutant of Consistent: the bound value is never checked against the options.
ConsistentAlways(options, current) == TRUE

\* The check of line 183: the value already bound is acceptable to this call.
Consistent(options, current) == HasWildcard(options) \/ Contains(options, current)

\* Mutant of ValidSelection: only the option that becomes the default is checked.
ValidSelectionFirstOnly(options, selectedOptions) ==
    HasWildcard(options) \/ Contains(options, selectedOptions[1])

\* The check of lines 197-208: the selector kept to the options it was given.
ValidSelection(options, selectedOptions) ==
    HasWildcard(options)
    \/ \A k \in 1..Len(selectedOptions) : Contains(options, selectedOptions[k])

\* What a call leaves behind when it ends the scope's goroutine or returns
\* without touching the scope.
Outcome(imp, outcome, value, consulted, selectedOptions) ==
    [outcome |-> outcome, value |-> value, ctx |-> imp.ctx,
     parameterSelection |-> imp.parameterSelection,
     consulted |-> consulted, selectedOptions |-> selectedOptions]

\* Mutant of selected: the last returned option becomes the default.
selectedBindsLast(imp, name, options) ==
    IF Len(options) = 0 THEN Outcome(imp, "fatal", Nil, TRUE, options)
    ELSE IF Value(imp.ctx, name) # Nil THEN Outcome(imp, "fatal", Nil, TRUE, options)
    ELSE [outcome |-> "return", value |-> options[Len(options)],
          ctx |-> WithValue(imp.ctx, name, options[Len(options)]),
          parameterSelection |-> [name |-> name, options |-> options],
          consulted |-> TRUE, selectedOptions |-> options]

\* Mutant of selected: the options are recorded and the name is left unbound.
selectedRecordsOnly(imp, name, options) ==
    IF Len(options) = 0 THEN Outcome(imp, "fatal", Nil, TRUE, options)
    ELSE IF Value(imp.ctx, name) # Nil THEN Outcome(imp, "fatal", Nil, TRUE, options)
    ELSE [outcome |-> "return", value |-> options[1],
          ctx |-> imp.ctx,
          parameterSelection |-> [name |-> name, options |-> options],
          consulted |-> TRUE, selectedOptions |-> options]

\* imp.selected(name, options...)
selected(imp, name, options) ==
    IF Len(options) = 0 THEN Outcome(imp, "fatal", Nil, TRUE, options)
    ELSE IF Value(imp.ctx, name) # Nil THEN Outcome(imp, "fatal", Nil, TRUE, options)
    ELSE [outcome |-> "return", value |-> options[1],
          ctx |-> WithValue(imp.ctx, name, options[1]),
          parameterSelection |-> [name |-> name, options |-> options],
          consulted |-> TRUE, selectedOptions |-> options]

\* Mutant of Select: the selector is asked without looking for a binding first.
SelectIgnoresBinding(imp, name, options) ==
    IF imp.ctx.selector = Nil THEN Outcome(imp, "panic", Nil, FALSE, <<>>)
    ELSE LET selectedOptions == SelectorSelect(imp.ctx.selector, name, options) IN
         IF Len(selectedOptions) = 0
         THEN Outcome(imp, "skip", Nil, TRUE, selectedOptions)
         ELSE IF ~ValidSelection(options, selectedOptions)
         THEN Outcome(imp, "fatal", Nil, TRUE, selectedOptions)
         ELSE selected(imp, name, selectedOptions)

\* imp.Select(name, options...)
Select(imp, name, options) ==
    LET current == Value(imp.ctx, name) IN
    IF current # Nil
    THEN IF ~Consistent(options, current)
         THEN Outcome(imp, "fatal", Nil, FALSE, <<>>)
         ELSE Outcome(imp, "return", current, FALSE, <<>>)
    ELSE IF imp.ctx.selector = Nil
    \* the type assertion of line 191 on a nil interface value
    THEN Outcome(imp, "panic", Nil, FALSE, <<>>)
    ELSE LET selectedOptions == SelectorSelect(imp.ctx.selector, name, options) IN
         IF Len(selectedOptions) = 0
         THEN Outcome(imp, "skip", Nil, TRUE, selectedOptions)
         ELSE IF ~ValidSelection(options, selectedOptions)
         THEN Outcome(imp, "fatal", Nil, TRUE, selectedOptions)
         ELSE selected(imp, name, selectedOptions)

----------------------------------------------------------------------------
(* The run *)

\* func Plan(t, fn): lines 20-30, about to call imp.Plan("default", fn)
PlanEntry(fn) ==
    /\ entry = "Plan"
    /\ scopes = <<[NewScope(0, "root", "entry", Nil, WithCancel(RootCtx(Nil), 1), fn) EXCEPT !.phase = "call"]>>

\* A root scope built around a context that carries a ParameterSelector,
\* driven the way Plan drives its own.
ScopeEntry(fn, selector) ==
    /\ entry = "Scope"
    /\ scopes = <<[NewScope(0, "root", "entry", Nil, WithCancel(RootCtx(selector), 1), fn) EXCEPT !.phase = "call"]>>

Init ==
    /\ calls = <<>>
    /\ panicked = FALSE
    /\ goroutines = <<>>
    /\ constructed = 0
    /\ \E fn \in Fns(MaxSize, TRUE) :
          \/ PlanEntry(fn)
          \/ \E selector \in Selectors : ScopeEntry(fn, selector)

\* The call the active scope's body is about to make.
Instr(imp) == imp.fn[imp.pc]

InBody(imp, op) ==
    /\ imp.phase = "body"
    /\ imp.pc <= Len(imp.fn)
    /\ Instr(imp).op = op

\* Mutant of AfterSelect: an empty selection fails the scope (Fatalf for Skipf).
AfterSelectSkipFails(imp, r) ==
    CASE r.outcome = "return" ->
            [imp EXCEPT !.ctx = r.ctx, !.parameterSelection = r.parameterSelection,
                        !.pc = imp.pc + 1]
      [] r.outcome \in {"fatal", "skip"} -> FailNow(imp)
      [] r.outcome = "panic" -> FailNow(imp)

\* Mutant of AfterSelect: the exhaustion is deferred, so it also runs when
\* the call ends the body.
AfterSelectDefersExhaust(imp, r) ==
    CASE r.outcome = "return" ->
            [imp EXCEPT !.ctx = r.ctx, !.parameterSelection = r.parameterSelection,
                        !.pc = imp.pc + 1]
      [] r.outcome \in {"fatal", "skip"} -> [imp EXCEPT !.phase = "exhaust"]
      [] r.outcome = "panic" -> FailNow(imp)

\* The scope after its Select call ended with r.
AfterSelect(imp, r) ==
    CASE r.outcome = "return" ->
            [imp EXCEPT !.ctx = r.ctx, !.parameterSelection = r.parameterSelection,
                        !.pc = imp.pc + 1]
      [] r.outcome = "fatal" -> FailNow(imp)
      [] r.outcome = "skip" -> SkipNow(imp)
      [] r.outcome = "panic" -> FailNow(imp)

\* The body calls t.Select(name, options...).
SelectCall ==
    /\ Busy
    /\ InBody(scopes[Active], "Select")
    /\ LET imp == scopes[Active]
           r == Select(imp, Instr(imp).name, Instr(imp).options)
       IN /\ scopes' = [Ended(scopes, Active, r.outcome) EXCEPT ![Active] = AfterSelect(imp, r)]
          /\ calls' = Append(calls, [scope |-> Active, name |-> Instr(imp).name,
                                     options |-> Instr(imp).options,
                                     before |-> imp, r |-> r,
                                     after |-> AfterSelect(imp, r)])
          /\ panicked' = (r.outcome = "panic")
    /\ UNCHANGED <<entry, goroutines, constructed>>

\* The body tests a parameter's value and ends its scope with t.Fatalf or
\* t.Skipf when it is the one it does not accept.
Check ==
    /\ Busy
    /\ scopes[Active].phase = "body"
    /\ scopes[Active].pc <= Len(scopes[Active].fn)
    /\ Instr(scopes[Active]).op \in {"Fatalf", "Skipf"}
    /\ LET imp == scopes[Active]
           hit == Parameter(imp, Instr(imp).name) = [value |-> Instr(imp).options[1], ok |-> TRUE]
       IN scopes' = IF ~hit THEN [scopes EXCEPT ![Active].pc = imp.pc + 1]
                    ELSE IF Instr(imp).op = "Fatalf"
                    THEN [Ended(scopes, Active, "fatal") EXCEPT ![Active] = FailNow(imp)]
                    ELSE [scopes EXCEPT ![Active] = SkipNow(imp)]
    /\ UNCHANGED <<entry, calls, panicked, goroutines, constructed>>

\* imp.Plan("default", fn) of line 31.
PlanDefault ==
    /\ Busy
    /\ scopes[Active].phase = "call"
    /\ LET imp == scopes[Active] IN
       scopes' = Append([scopes EXCEPT ![Active].phase = "exhaust"],
                        NewScope(Active, "plan", "Plan", Nil, WithCancel(Ctx(imp), Len(scopes) + 1), imp.fn))
    /\ UNCHANGED <<entry, calls, panicked, goroutines, constructed>>

\* The body calls t.Plan(name, fn'): planCtx up to fn'(subScope).
Plan ==
    /\ Busy
    /\ InBody(scopes[Active], "Plan")
    /\ LET imp == scopes[Active] IN
       scopes' = Append([scopes EXCEPT ![Active].pc = imp.pc + 1],
                        NewScope(Active, "plan", "Plan", Nil, WithCancel(Ctx(imp), Len(scopes) + 1), Instr(imp).fn))
    /\ UNCHANGED <<entry, calls, panicked, goroutines, constructed>>

\* The body calls t.Run(name, fn').
Run ==
    /\ Busy
    /\ InBody(scopes[Active], "Run")
    /\ LET imp == scopes[Active] IN
       scopes' = Append([scopes EXCEPT ![Active].pc = imp.pc + 1],
                        NewScope(Active, "run", "Run", Nil, WithCancel(Ctx(imp), Len(scopes) + 1), Instr(imp).fn))
    /\ UNCHANGED <<entry, calls, panicked, goroutines, constructed>>

\* fn(subScope) has made its last call.
BodyDone(imp) == imp.pc > Len(imp.fn)

\* Mutant of Exhausts: Run exhausts like planCtx.
ExhaustsAlways(imp) == TRUE

\* Whether the scope goes on to subScope.exhaust(fn) when its body returns.
Exhausts(imp) == imp.kind = "plan"

\* fn(subScope) returns: planCtx goes on to exhaust, Run is done.
BodyReturn ==
    /\ Busy
    /\ scopes[Active].phase = "body"
    /\ BodyDone(scopes[Active])
    /\ LET imp == scopes[Active] IN
       scopes' = [scopes EXCEPT ![Active] =
                    IF Exhausts(imp) THEN [imp EXCEPT !.phase = "exhaust"]
                    ELSE [imp EXCEPT !.phase = "done", !.status = Result(imp)]]
    /\ UNCHANGED <<entry, calls, panicked, goroutines, constructed>>

\* Mutant of ExhaustStep: the option already taken by the default path is
\* not skipped.
ExhaustStepNoSkip(imp) ==
    LET sel == imp.parameterSelection IN
    IF sel.name = Nil THEN "done"
    ELSE IF imp.i > Len(sel.options) THEN "done"
    ELSE IF Value(Ctx(imp), sel.name) = Nil THEN "fatal"
    ELSE "run"

\* Mutant of ExhaustStep: the loop ends at the first sub-run that did not pass.
ExhaustStepStopsOnFailure(imp) ==
    LET sel == imp.parameterSelection IN
    IF sel.name = Nil THEN "done"
    ELSE IF imp.i > Len(sel.options) THEN "done"
    ELSE IF \E x \in 1..Len(scopes) :
               /\ scopes[x].via = "exhaust"
               /\ scopes[scopes[x].parent] = imp
               /\ scopes[x].status \in {"failed", "skipped"} THEN "done"
    ELSE LET current == Value(Ctx(imp), sel.name) IN
         IF current = Nil THEN "fatal"
         ELSE IF current = sel.options[imp.i] THEN "continue"
         ELSE "run"

\* One step of imp.exhaust(fn): the early return, the end of the loop, or one
\* iteration of it. "done", "fatal", "continue" or "run".
ExhaustStep(imp) ==
    LET sel == imp.parameterSelection IN
    IF sel.name = Nil THEN "done"
    ELSE IF imp.i > Len(sel.options) THEN "done"
    ELSE LET current == Value(Ctx(imp), sel.name) IN
         IF current = Nil THEN "fatal"
         ELSE IF current = sel.options[imp.i] THEN "continue"
         ELSE "run"

\* Mutant of SubCtx: the context key does not tell the names apart.
SubCtxAnyName(imp, opt) == [Ctx(imp) EXCEPT !.par = [n \in Names |-> opt]]

\* Mutant of SubCtx: the sub-run starts from the context the scope was created
\* with, in which the name is still unbound.
SubCtxUnbound(imp, opt) == imp.ctx0

\* The context of the sub-run for option opt.
SubCtx(imp, opt) == WithValue(Ctx(imp), imp.parameterSelection.name, opt)

exhaust ==
    /\ Busy
    /\ scopes[Active].phase = "exhaust"
    /\ LET imp == scopes[Active]
           step == ExhaustStep(imp)
       IN scopes' =
            CASE step = "done" ->
                    [scopes EXCEPT ![Active].phase = "done", ![Active].status = Result(imp)]
              [] step = "fatal" ->
                    [Ended(scopes, Active, "fatal") EXCEPT ![Active] = FailNow(imp)]
              [] step = "continue" -> [scopes EXCEPT ![Active].i = imp.i + 1]
              [] step = "run" ->
                    Append([scopes EXCEPT ![Active].i = imp.i + 1],
                           NewScope(Active, "plan", "exhaust",
                                    imp.parameterSelection.options[imp.i],
                                    WithCancel(SubCtx(imp, imp.parameterSelection.options[imp.i]),
                                               Len(scopes) + 1),
                                    imp.fn))
    /\ UNCHANGED <<entry, calls, panicked, goroutines, constructed>>

Next == SelectCall \/ Check \/ PlanDefault \/ Plan \/ Run \/ BodyReturn \/ exhaust

Spec == Init /\ [][Next]_vars

TypeOK ==
    /\ entry \in {"Plan", "Scope"}
    /\ panicked \in BOOLEAN
    /\ \A s \in 1..Len(scopes) :
          /\ scopes[s].parent \in 0..(s - 1)
          /\ scopes[s].status \in {"running", "passed", "failed", "skipped"}
          /\ scopes[s].failed \in BOOLEAN
          /\ scopes[s].skipped \in BOOLEAN
          /\ scopes[s].status # "running" => scopes[s].status = Result(scopes[s])

----------------------------------------------------------------------------
(* Vocabulary of the properties *)

Scopes == 1..Len(scopes)
Calls == 1..Len(calls)

\* The body handed to the entry point and the selector in the root context.
RootFn == scopes[1].fn
RootSelector == scopes[1].ctx.selector

\* The whole run is over and the process is alive.
Finished == ~panicked /\ Running = {}

\* The scopes that execute body fn under Plan (default path or exhaustion).
Executions(fn) == {s \in Scopes : scopes[s].kind = "plan" /\ scopes[s].fn = fn}

\* The exhaustion sub-runs started by scope s.
ExhaustRuns(s) == {x \in Scopes : scopes[x].parent = s /\ scopes[x].via = "exhaust"}

\* The selector is present and returns every one of options, each once.
ReturnsAll(selector, name, options) ==
    /\ selector # Nil
    /\ LET r == SelectorSelect(selector, name, options) IN
       /\ Len(r) = Len(options)
       /\ \A k \in 1..Len(options) : Contains(r, options[k])

Distinct(options) ==
    \A j, k \in 1..Len(options) : options[j] = options[k] => j = k

\* The value of name the scope's calls were bound to.
Bound(s, name) == Value(scopes[s].ctx, name)

----------------------------------------------------------------------------
(* C1 *)

\* The bodies C1 is about: one Select of name from options, nothing else.
OneSelect(name, options) == <<SelectInstr(name, options)>>

C1Case(name, options) ==
    /\ RootFn = OneSelect(name, options)
    /\ ~HasWildcard(options)
    /\ Distinct(options)
    /\ ReturnsAll(RootSelector, name, options)

\* C1: when the entry point runs a body that is one Select(p, o1..on) (no
\* wildcard, distinct options) and the selector returns all n options, the body
\* is never executed twice under the same option, and once the run is over it
\* has been executed exactly n times, once under each option, the first
\* execution under the selector's first returned option.
C1_Completeness ==
    \A name \in Names : \A options \in OptionLists \cup {QOptions} :
        C1Case(name, options) =>
            LET E == Executions(RootFn) IN
            /\ \A s, t \in E :
                  (Bound(s, name) # Nil /\ Bound(s, name) = Bound(t, name)) => s = t
            /\ Finished =>
                  /\ Cardinality(E) = Len(options)
                  /\ \A k \in 1..Len(options) :
                        \E s \in E : /\ Bound(s, name) = options[k]
                                     /\ scopes[s].status = "passed"
                                     /\ Cardinality({c \in Calls : calls[c].scope = s}) = 1
                  /\ LET first == CHOOSE m \in E : \A u \in E : m <= u IN
                     /\ scopes[first].via = "Plan"
                     /\ Bound(first, name) =
                            SelectorSelect(RootSelector, name, options)[1]

C1_Witness ==
    /\ Finished
    /\ C1Case("p", <<"a", "b", "c">>)
    /\ RootSelector = "rev"
    /\ Cardinality(Executions(RootFn)) = 3
    /\ Bound(2, "p") = "c"

----------------------------------------------------------------------------
(* C2 *)

\* The bodies C2 is about: select n1, then select n2 in a nested Plan.
Nested(n2, o2) == <<SelectInstr(n2, o2)>>
TwoLevels(n1, o1, n2, o2) == <<SelectInstr(n1, o1), PlanInstr(Nested(n2, o2))>>

C2Case(n1, o1, n2, o2) ==
    /\ n1 # n2
    /\ RootFn = TwoLevels(n1, o1, n2, o2)
    /\ ~HasWildcard(o1) /\ ~HasWildcard(o2)
    /\ Distinct(o1) /\ Distinct(o2)
    /\ ReturnsAll(RootSelector, n1, o1)
    /\ ReturnsAll(RootSelector, n2, o2)

\* C2: when a Plan body selects p and then selects q in a nested Plan (the
\* selector returning every option), no two executions of the nested body run
\* under the same pair of bindings, and once the run is over the nested body
\* has been executed under every pair (p=o, q=o'), each exactly once; every
\* execution of the outer body, default path or exhaustion sub-run, has a
\* nested scope of its own that consulted the selector for q, recorded q and
\* exhausted its remaining options.
C2_NestedDiscovery ==
    \A n1, n2 \in Names : \A o1, o2 \in OptionLists \cup {QOptions} :
        C2Case(n1, o1, n2, o2) =>
            LET E == Executions(Nested(n2, o2)) IN
            /\ \A s, t \in E :
                  (/\ Bound(s, n2) # Nil
                   /\ Bound(s, n1) = Bound(t, n1)
                   /\ Bound(s, n2) = Bound(t, n2)) => s = t
            /\ Finished =>
                  /\ Cardinality(E) = Len(o1) * Len(o2)
                  /\ \A j \in 1..Len(o1) : \A k \in 1..Len(o2) :
                        \E s \in E : /\ Bound(s, n1) = o1[j]
                                     /\ Bound(s, n2) = o2[k]
                                     /\ scopes[s].status = "passed"
                  /\ Cardinality(Executions(RootFn)) = Len(o1)
                  /\ \A t \in Executions(RootFn) :
                        \E d \in E :
                           /\ scopes[d].parent = t
                           /\ scopes[d].via = "Plan"
                           /\ scopes[d].parameterSelection.name = n2
                           /\ \E c \in Calls : /\ calls[c].scope = d
                                               /\ calls[c].r.consulted
                           /\ Cardinality(ExhaustRuns(d)) = Len(o2) - 1

C2_Witness ==
    /\ Finished
    /\ C2Case("p", <<"a", "c">>, "q", <<"x", "y">>)
    /\ RootSelector = "all"
    /\ \E s \in Executions(Nested("q", <<"x", "y">>)) :
          /\ Bound(s, "p") = "c"
          /\ Bound(s, "q") = "y"
          /\ scopes[s].via = "exhaust"
          /\ scopes[scopes[scopes[s].parent].parent].via = "exhaust"

----------------------------------------------------------------------------
(* C3 *)

\* A Select call for a name that is unbound, made by a scope that has
\* already recorded a selection for another name.
SecondDiscovery(c) ==
    /\ calls[c].before.parameterSelection.name # Nil
    /\ calls[c].before.parameterSelection.name # calls[c].name
    /\ Value(calls[c].before.ctx, calls[c].name) = Nil

\* C3: a Select for a second unbound name in a scope that has already
\* recorded a pending selection fails fatally, and the scope's selection
\* record, once set, is never replaced.
C3_OneDiscoveryPerScope ==
    \A c \in Calls :
        /\ SecondDiscovery(c) => calls[c].r.outcome = "fatal"
        /\ calls[c].before.parameterSelection.name # Nil =>
              calls[c].after.parameterSelection = calls[c].before.parameterSelection

----------------------------------------------------------------------------
(* C4 *)

\* A Select call for a name already bound to a value the call does not accept.
Inconsistent(c) ==
    LET v == Value(calls[c].before.ctx, calls[c].name) IN
    /\ v # Nil
    /\ ~Contains(calls[c].options, v)
    /\ ~Contains(calls[c].options, "*")

\* C4: a Select of a name already bound to v, with v not among the options
\* and no wildcard, fails fatally: the selector is not consulted, the scope
\* is marked failed, its body goes no further (no later call, no exhaustion)
\* and its context and selection record stay as they were before the call.
C4_ConsistencyEnforced ==
    \A c \in Calls :
        Inconsistent(c) =>
            LET s == calls[c].scope IN
            /\ calls[c].r.outcome = "fatal"
            /\ ~calls[c].r.consulted
            /\ scopes[s].status = "failed"
            /\ scopes[s].phase = "body"
            /\ scopes[s].pc = calls[c].before.pc
            /\ scopes[s].ctx = calls[c].before.ctx
            /\ scopes[s].parameterSelection = calls[c].before.parameterSelection
            /\ ExhaustRuns(s) = {}
            /\ \A d \in Calls : calls[d].scope = s => d <= c

\* The call is the second of an exhaustion sub-run and does not accept the
\* value the sub-run was rebound to.
C4_Witness ==
    \E c \in Calls :
        /\ Inconsistent(c)
        /\ scopes[calls[c].scope].via = "exhaust"
        /\ Value(scopes[calls[c].scope].ctx0, calls[c].name) = "b"
        /\ calls[c].before.pc = 2
        /\ scopes[calls[c].scope].status = "failed"

----------------------------------------------------------------------------
(* C5 *)

\* A Select call for a name already bound to a value the call accepts.
Passthrough(c) ==
    LET v == Value(calls[c].before.ctx, calls[c].name) IN
    /\ v # Nil
    /\ Contains(calls[c].options, v) \/ Contains(calls[c].options, "*")

\* C5: a Select of a name already bound to v, with v among the options or
\* with the wildcard, returns v without consulting the selector and changes
\* neither the scope's context nor its selection record.
C5_BoundValuePassthrough ==
    \A c \in Calls :
        Passthrough(c) =>
            /\ calls[c].r.outcome = "return"
            /\ calls[c].r.value = Value(calls[c].before.ctx, calls[c].name)
            /\ ~calls[c].r.consulted
            /\ calls[c].after.ctx = calls[c].before.ctx
            /\ calls[c].after.parameterSelection = calls[c].before.parameterSelection
            /\ calls[c].after.status = "running"

\* A wildcard Select in a descendant of the scope that bound the name, where
\* the bound value is not the wildcard itself nor one of the options.
C5_Witness ==
    \E c \in Calls :
        /\ Passthrough(c)
        /\ calls[c].options = <<"*">>
        /\ Value(scopes[calls[c].scope].ctx0, calls[c].name) \in {"b", "c"}
        /\ scopes[calls[c].scope].via \in {"Plan", "Run"}
        /\ scopes[scopes[calls[c].scope].parent].via = "exhaust"

----------------------------------------------------------------------------
(* C6 *)

\* A Select call for an unbound name for which the selector returns nothing.
EmptySelection(c) ==
    /\ Value(calls[c].before.ctx, calls[c].name) = Nil
    /\ calls[c].before.ctx.selector # Nil
    /\ SelectorSelect(calls[c].before.ctx.selector, calls[c].name, calls[c].options) = <<>>

\* Scope t has started a sub-run for every option it recorded other than the
\* one it is bound to, and each of them has run to its end.
Exhausted(t) ==
    LET sel == scopes[t].parameterSelection IN
    \A k \in 1..Len(sel.options) :
        sel.options[k] # Bound(t, sel.name) =>
            \E x \in ExhaustRuns(t) : /\ scopes[x].opt = sel.options[k]
                                      /\ scopes[x].status # "running"

\* C6 as claimed: when the selector returns an empty subset for an unbound
\* parameter, the calling scope is marked skipped and binds nothing, and once
\* the run is over every parameter discovered before, in that scope or in an
\* enclosing one, has had all its exhaustion sub-runs.
C6_SkipKeepsEveryExhaustion ==
    \A c \in Calls :
        EmptySelection(c) =>
            /\ calls[c].r.outcome = "skip"
            /\ scopes[calls[c].scope].status = "skipped"
            /\ Bound(calls[c].scope, calls[c].name) = Nil
            /\ Finished =>
                  \A t \in Scopes :
                      (/\ IsAncestor(t, calls[c].scope)
                       /\ scopes[t].parameterSelection.name # Nil) => Exhausted(t)

\* C6 as amended: the skip ends the calling scope only. That scope is marked
\* skipped, and not failed by the skip (it is reported skipped unless a
\* sub-test of it had failed before), binds nothing for the parameter, goes
\* no further and starts no exhaustion sub-run, not even for a parameter it
\* had recorded itself; every enclosing scope that ends normally has started
\* and run the exhaustion sub-runs of all remaining options of the parameter
\* it recorded.
C6_SkipEndsOnlyItsScope ==
    \A c \in Calls :
        EmptySelection(c) =>
            LET s == calls[c].scope IN
            /\ calls[c].r.outcome = "skip"
            /\ scopes[s].skipped
            /\ scopes[s].failed = calls[c].before.failed
            /\ scopes[s].status = Result(scopes[s])
            /\ Bound(s, calls[c].name) = Nil
            /\ scopes[s].ctx = calls[c].before.ctx
            /\ scopes[s].pc = calls[c].before.pc
            /\ ExhaustRuns(s) = {}
            /\ \A t \in Scopes :
                  (/\ t # s
                   /\ IsAncestor(t, s)
                   /\ scopes[t].phase = "done"
                   /\ scopes[t].parameterSelection.name # Nil) => Exhausted(t)

\* The skip happens in a nested scope of every execution of a body that has
\* discovered a parameter with three options; the skipped scope of the default
\* path had recorded nothing, and both sub-runs of the enclosing scope ran.
C6_Witness ==
    /\ Finished
    /\ \E c \in Calls :
          LET s == calls[c].scope
              t == scopes[calls[c].scope].parent
          IN /\ EmptySelection(c)
             /\ scopes[s].status = "skipped"
             /\ scopes[t].via = "Plan"
             /\ scopes[t].status = "passed"
             /\ Len(scopes[t].parameterSelection.options) = 3
             /\ Cardinality(ExhaustRuns(t)) = 2
             /\ \A x \in ExhaustRuns(t) :
                   \E d \in Calls : /\ scopes[calls[d].scope].parent = x
                                    /\ EmptySelection(d)

----------------------------------------------------------------------------
(* C7 *)

\* A Select call for an unbound name that reaches a selector.
Fresh(c) ==
    /\ Value(calls[c].before.ctx, calls[c].name) = Nil
    /\ calls[c].before.ctx.selector # Nil

Returned(c) ==
    SelectorSelect(calls[c].before.ctx.selector, calls[c].name, calls[c].options)

Stray(c) ==
    \E k \in 1..Len(Returned(c)) : ~Contains(calls[c].options, Returned(c)[k])

\* C7: for an unbound name and a non-empty answer of the selector: without a
\* wildcard, an answer holding any option that was not presented makes the
\* call fail fatally, leaving the scope without a binding for the name and
\* with the selection record it had (also when the first returned option is
\* valid); with a wildcard no membership check is made, and the first
\* returned option is bound and returned whatever it is.
C7_SelectorSubsetValidated ==
    \A c \in Calls :
        (Fresh(c) /\ Returned(c) # <<>>) =>
            LET s == calls[c].scope IN
            /\ (~Contains(calls[c].options, "*") /\ Stray(c)) =>
                  /\ calls[c].r.outcome = "fatal"
                  /\ scopes[s].status = "failed"
                  /\ Bound(s, calls[c].name) = Nil
                  /\ scopes[s].ctx = calls[c].before.ctx
                  /\ scopes[s].parameterSelection = calls[c].before.parameterSelection
            /\ Contains(calls[c].options, "*") =>
                  /\ calls[c].r.outcome = "return"
                  /\ calls[c].r.value = Returned(c)[1]
                  /\ Value(calls[c].after.ctx, calls[c].name) = Returned(c)[1]
                  /\ calls[c].after.parameterSelection =
                        [name |-> calls[c].name, options |-> Returned(c)]

\* One call fails although the first returned option is valid, and a
\* wildcard call binds and records an answer holding a stray option.
C7_Witness ==
    /\ \E c \in Calls : /\ Fresh(c)
                        /\ ~Contains(calls[c].options, "*")
                        /\ Stray(c)
                        /\ Contains(calls[c].options, Returned(c)[1])
                        /\ scopes[calls[c].scope].status = "failed"
    /\ \E c \in Calls : /\ Fresh(c)
                        /\ Contains(calls[c].options, "*")
                        /\ Stray(c)
                        /\ calls[c].r.outcome = "return"

----------------------------------------------------------------------------
(* C8 *)

\* S has a sub-test of its own, started in one of the given ways, that is
\* marked failed (a failure below it marks it too).
FailedChild(S, vias) ==
    \E y \in Scopes : /\ scopes[y].parent = S
                      /\ scopes[y].via \in vias
                      /\ scopes[y].failed

\* An ended exhaustion sub-run x of S has not aborted S: S stays in its
\* exhaustion until the loop is over, every Select of its default path had
\* returned, its bindings are those the default path left, and when S is
\* over every option it recorded other than its default has had a sub-run of
\* its own.
SiblingsIsolated(S) ==
    /\ scopes[S].phase \in {"exhaust", "done"}
    /\ (scopes[S].status # "running" => scopes[S].phase = "done")
    /\ \A c \in Calls :
          calls[c].scope = S =>
             /\ calls[c].r.outcome = "return"
             /\ Bound(S, calls[c].name) = calls[c].r.value
    /\ (scopes[S].status # "running" => Exhausted(S))
    /\ (scopes[S].status = "running" =>
           \/ Running # {S}
           \/ scopes[S].i > Len(scopes[S].parameterSelection.options)
           \/ ExhaustStep(scopes[S]) \in {"run", "continue"})

\* C8, as stated: when an exhaustion sub-run of scope S ends failed or
\* skipped, every other recorded option of S still gets its sub-run and the
\* completed default path is not affected: S carries no mark of a skip, and
\* no mark of a failure other than one its default path had left on it, so
\* that S is reported as its default path ended.
C8_DefaultPathNotAffected ==
    \A S \in Scopes : \A x \in ExhaustRuns(S) :
        scopes[x].status \in {"failed", "skipped"} =>
            /\ SiblingsIsolated(S)
            /\ scopes[S].skipped = FALSE
            /\ (scopes[S].failed => FailedChild(S, {"Plan", "Run"}))

\* C8, amended: when an exhaustion sub-run of scope S ends failed or skipped,
\* S is not aborted by it and every other recorded option of S still gets its
\* sub-run; a skipped sub-run leaves no mark on S, but a failed one marks S
\* and every test enclosing S failed, and S is reported failed when it is
\* over although its default path had completed.
C8_ExhaustionSiblingsIsolated ==
    \A S \in Scopes : \A x \in ExhaustRuns(S) :
        scopes[x].status \in {"failed", "skipped"} =>
            /\ SiblingsIsolated(S)
            /\ scopes[S].skipped = FALSE
            /\ scopes[S].status = (IF scopes[S].phase = "done" THEN Result(scopes[S])
                                   ELSE "running")
            /\ (scopes[x].failed =>
                   \A a \in Scopes : IsAncestor(a, S) => scopes[a].failed)
            /\ (scopes[S].failed =>
                   FailedChild(S, {"Plan", "Run", "exhaust"}))

\* The default path of S left no failure, the sub-run of the first remaining
\* option failed, the sub-run of the next one was started after it and
\* passed, and S is over and reported failed.
C8_Witness ==
    \E S \in Scopes : \E x, y \in ExhaustRuns(S) :
        /\ x < y
        /\ scopes[x].status = "failed"
        /\ scopes[y].status = "passed"
        /\ ~FailedChild(S, {"Plan", "Run"})
        /\ scopes[S].phase = "done"
        /\ scopes[S].status = "failed"

----------------------------------------------------------------------------
(* C9 *)

RECURSIVE InDefaultPath(_, _)
\* y lies in the subtree of a scope that the body of S spawned by Plan or Run.
InDefaultPath(S, y) ==
    IF y = 0 \/ y = S THEN FALSE
    ELSE IF scopes[y].parent = S THEN scopes[y].via \in {"Plan", "Run"}
    ELSE InDefaultPath(S, scopes[y].parent)

\* C9: whenever an exhaustion sub-run of a scope exists, the scope's body has
\* made its last call and returned, and every scope the default path spawned,
\* with all their descendants (their own exhaustion sub-runs included), has
\* ended.
C9_DefaultBeforeExhaustion ==
    \A x \in Scopes :
        scopes[x].via = "exhaust" =>
            LET S == scopes[x].parent IN
            /\ scopes[S].phase \in {"exhaust", "done"}
            /\ scopes[S].pc > Len(scopes[S].fn)
            /\ \A y \in Scopes : InDefaultPath(S, y) => scopes[y].status # "running"

\* A sub-run has just been started by a scope whose default path spawned a
\* nested Plan that ran exhaustion sub-runs of its own.
C9_Witness ==
    \E x \in Scopes :
        /\ scopes[x].via = "exhaust"
        /\ scopes[x].status = "running"
        /\ scopes[x].pc = 1
        /\ \E y \in Scopes : /\ InDefaultPath(scopes[x].parent, y)
                             /\ scopes[y].via = "exhaust"
                             /\ scopes[y].status = "passed"

----------------------------------------------------------------------------
(* C10 *)

\* The Run calls among the calls the body of scope s has made so far.
RunCalls(s) ==
    {k \in 1..Len(scopes[s].fn) : k < scopes[s].pc /\ scopes[s].fn[k].op = "Run"}

RunScopes(s) == {r \in Scopes : scopes[r].parent = s /\ scopes[r].via = "Run"}

\* C10: a Run scope never starts an exhaustion sub-run; a parameter freshly
\* selected in its body is bound, to the selector's first returned option, in
\* the Run scope alone: a scope's context differs from the one it was created
\* with only by its own fresh selections, and every exhaustion sub-run is
\* started by a Plan scope for an option of the parameter that scope itself
\* selected; each Run call of a body creates exactly one Run scope.
C10_RunIsLeaf ==
    /\ \A r \in Scopes :
          scopes[r].kind = "run" =>
              /\ ExhaustRuns(r) = {}
              /\ scopes[r].phase \in {"body", "done"}
              /\ \A c \in Calls :
                    (calls[c].scope = r /\ Fresh(c) /\ calls[c].r.outcome = "return") =>
                        Bound(r, calls[c].name) = Returned(c)[1]
    /\ \A s \in Scopes : \A n \in Names :
          Bound(s, n) # Value(scopes[s].ctx0, n) =>
              \E c \in Calls : /\ calls[c].scope = s
                               /\ calls[c].name = n
                               /\ Fresh(c)
                               /\ calls[c].r.outcome = "return"
    /\ \A x \in Scopes :
          scopes[x].via = "exhaust" =>
              LET S == scopes[x].parent IN
              /\ scopes[S].kind = "plan"
              /\ Contains(scopes[S].parameterSelection.options, scopes[x].opt)
              /\ \E c \in Calls : /\ calls[c].scope = S
                                  /\ calls[c].name = scopes[S].parameterSelection.name
                                  /\ Fresh(c)
                                  /\ calls[c].r.outcome = "return"
    /\ \A s \in Scopes :
          scopes[s].kind # "root" => Cardinality(RunScopes(s)) = Cardinality(RunCalls(s))

\* Each of the two executions of a Plan body has run one Run scope, which
\* selected a parameter with two options, passed and exhausted nothing.
C10_Witness ==
    /\ Finished
    /\ \E S \in Scopes :
          /\ Cardinality(ExhaustRuns(S)) = 1
          /\ \A t \in ExhaustRuns(S) \cup {S} :
                \E r \in RunScopes(t) :
                    /\ scopes[r].status = "passed"
                    /\ Len(scopes[r].parameterSelection.options) = 2
                    /\ Bound(r, scopes[r].parameterSelection.name) = "x"
                    /\ Bound(t, scopes[r].parameterSelection.name) = Nil

----------------------------------------------------------------------------

\* A Select call for an unbound name to which the selector answered with a
\* valid non-empty list.
FreshSelection(c) ==
    /\ Fresh(c)
    /\ Len(Returned(c)) > 0
    /\ ValidSelection(calls[c].options, Returned(c))

\* Some scope on the path from the root to s, s included, has bound name.
BoundOnPath(s, name) ==
    \E c \in Calls :
        /\ calls[c].name = name
        /\ calls[c].r.outcome = "return"
        /\ IsAncestor(calls[c].scope, s)
        /\ FreshSelection(c)

NotFound == [value |-> "", ok |-> FALSE]

\* C11: a Select call for an unbound name to which the selector answers with
\* a valid non-empty list s returns s[1] (the code's s[0]), leaves {name, s}
\* as the scope's selection record, and from then on Parameter(name) on that
\* scope yields (s[1], true). On a scope that is executing, Parameter(name)
\* yields ("", false) exactly when no scope on the path from the root to it
\* has bound name; on any scope a found value was bound on that path.
C11_FreshSelectionPostcondition ==
    /\ \A c \in Calls :
          FreshSelection(c) =>
            LET s == Returned(c)
                found == [value |-> s[1], ok |-> TRUE]
            IN /\ calls[c].r.outcome = "return"
               /\ calls[c].r.value = s[1]
               /\ calls[c].after.parameterSelection = [name |-> calls[c].name, options |-> s]
               /\ Parameter(calls[c].after, calls[c].name) = found
               /\ Parameter(scopes[calls[c].scope], calls[c].name) = found
    /\ \A s \in Scopes : \A name \in Names :
          /\ s \in Running =>
                (Parameter(scopes[s], name) = NotFound <=> ~BoundOnPath(s, name))
          /\ Parameter(scopes[s], name).ok => BoundOnPath(s, name)

\* A fresh selection whose default is not the first option offered, seen from
\* a scope spawned after it that finds the name and does not find the other.
C11_Witness ==
    \E c \in Calls : \E y \in Running :
        /\ FreshSelection(c)
        /\ Len(Returned(c)) >= 2
        /\ Returned(c)[1] # calls[c].options[1]
        /\ y # calls[c].scope
        /\ IsAncestor(calls[c].scope, y)
        /\ Parameter(scopes[y], calls[c].name) = [value |-> Returned(c)[1], ok |-> TRUE]
        /\ \E other \in Names : Parameter(scopes[y], other) = NotFound

----------------------------------------------------------------------------
(* Goroutines that call into one scope concurrently *)

MaxGoroutines == 3

\* A goroutine about to call a method of the scope.
Goroutine(op, name, options) ==
    [op |-> op, pc |-> "call", name |-> name, options |-> options,
     path |-> Nil, logger |-> 0, seen |-> RootCtx(Nil), outcome |-> Nil, value |-> Nil]

\* The one scope the goroutines share.
SharedScope(selector) == NewScope(0, "root", "entry", Nil, WithCancel(RootCtx(selector), 1), <<>>)

At(g, op, pc) ==
    /\ ~panicked
    /\ g \in 1..Len(goroutines)
    /\ goroutines[g].op = op
    /\ goroutines[g].pc = pc

\* Mutant of OnceFirst: doSlow does not look at done again once it holds the mutex.
OnceFirstUnchecked(once) == TRUE

\* doSlow, holding the mutex: f has not run yet.
OnceFirst(once) == ~once.done

\* imp.loggerOnce.Do(f): the load of done on the fast path.
OnceDo(g) ==
    /\ At(g, "Logger", "call")
    /\ goroutines' = [goroutines EXCEPT
                        ![g].pc = IF scopes[1].loggerOnce.done THEN "return" ELSE "lock",
                        ![g].path = IF scopes[1].loggerOnce.done THEN "fast" ELSE "slow"]
    /\ UNCHANGED <<entry, scopes, calls, panicked, constructed>>

\* doSlow: o.m.Lock()
OnceLock(g) ==
    /\ At(g, "Logger", "lock")
    /\ scopes[1].loggerOnce.m = 0
    /\ scopes' = [scopes EXCEPT ![1].loggerOnce.m = g]
    /\ goroutines' = [goroutines EXCEPT ![g].pc = "slow"]
    /\ UNCHANGED <<entry, calls, panicked, constructed>>

\* doSlow under the mutex: the second load of done, and
\* f: imp.logger = testlog.Logger(imp, imp.logLvl)
OnceSlow(g) ==
    /\ At(g, "Logger", "slow")
    /\ IF OnceFirst(scopes[1].loggerOnce)
       THEN /\ constructed' = constructed + 1
            /\ scopes' = [scopes EXCEPT ![1].logger = constructed + 1]
            /\ goroutines' = [goroutines EXCEPT ![g].pc = "store"]
       ELSE /\ goroutines' = [goroutines EXCEPT ![g].pc = "unlock"]
            /\ UNCHANGED <<scopes, constructed>>
    /\ UNCHANGED <<entry, calls, panicked>>

\* doSlow: the deferred o.done.Store(1)
OnceStore(g) ==
    /\ At(g, "Logger", "store")
    /\ scopes' = [scopes EXCEPT ![1].loggerOnce.done = TRUE]
    /\ goroutines' = [goroutines EXCEPT ![g].pc = "unlock"]
    /\ UNCHANGED <<entry, calls, panicked, constructed>>

\* doSlow: the deferred o.m.Unlock()
OnceUnlock(g) ==
    /\ At(g, "Logger", "unlock")
    /\ scopes' = [scopes EXCEPT ![1].loggerOnce.m = 0]
    /\ goroutines' = [goroutines EXCEPT ![g].pc = "return"]
    /\ UNCHANGED <<entry, calls, panicked, constructed>>

\* return imp.logger
LoggerReturn(g) ==
    /\ At(g, "Logger", "return")
    /\ goroutines' = [goroutines EXCEPT ![g].pc = "done", ![g].logger = scopes[1].logger]
    /\ UNCHANGED <<entry, scopes, calls, panicked, constructed>>

\* One scope, and up to MaxGoroutines goroutines that each call Logger() on it.
LoggerInit ==
    /\ entry = "Scope"
    /\ scopes = <<SharedScope("all")>>
    /\ calls = <<>>
    /\ panicked = FALSE
    /\ constructed = 0
    /\ \E n \in 1..MaxGoroutines :
          goroutines = [g \in 1..n |-> Goroutine("Logger", Nil, <<>>)]

LoggerNext ==
    \E g \in 1..MaxGoroutines :
        OnceDo(g) \/ OnceLock(g) \/ OnceSlow(g) \/ OnceStore(g) \/ OnceUnlock(g)
        \/ LoggerReturn(g)

LoggerSpec == LoggerInit /\ [][LoggerNext]_vars

\* C12: whatever the interleaving of the Logger() calls that goroutines make
\* on one scope, the logger is never constructed a second time, a call that
\* has returned has returned the one constructed instance (so it was
\* constructed exactly once), and that instance stays the scope's logger.
C12_OneShotLogger ==
    /\ constructed <= 1
    /\ \A g \in 1..Len(goroutines) :
          goroutines[g].pc = "done" =>
             /\ constructed = 1
             /\ goroutines[g].logger = 1
             /\ scopes[1].logger = 1
    /\ \A g, h \in 1..Len(goroutines) :
          (goroutines[g].pc = "done" /\ goroutines[h].pc = "done") =>
             goroutines[g].logger = goroutines[h].logger

\* Every call has returned; two of them raced on the first access (both found
\* done unset) and a third arrived after the logger was there.
C12_Witness ==
    /\ Len(goroutines) >= 3
    /\ \A g \in 1..Len(goroutines) : goroutines[g].pc = "done"
    /\ \E g, h, k \in 1..Len(goroutines) :
          /\ g # h
          /\ goroutines[g].path = "slow"
          /\ goroutines[h].path = "slow"
          /\ goroutines[k].path = "fast"

----------------------------------------------------------------------------

\* The child of d on the path from d down to k, a proper descendant of d.
ChildToward(d, k) == CHOOSE x \in Scopes : scopes[x].parent = d /\ IsAncestor(x, k)

\* Scope d discovered name: unbound in the context d was created with, bound
\* in the one it has.
Discovered(d, name) ==
    /\ Value(scopes[d].ctx0, name) = Nil
    /\ Bound(d, name) # Nil

\* x is the exhaustion sub-run of d for name.
ExhaustionFor(x, d, name) ==
    /\ scopes[x].parent = d
    /\ scopes[x].via = "exhaust"
    /\ scopes[d].parameterSelection.name = name

\* C13: a scope created with name bound to v finds (v, true) under name for
\* its whole life, and so does every scope of its subtree, nested Plan, Run
\* and exhaustion sub-runs alike. Below the scope that discovered name, a
\* scope spawned with name bound carries the discoverer's default, except in
\* an exhaustion sub-run of the discoverer for that very name and below it,
\* where it carries the sub-run's option, which is not the default.
C13_BindingPersistence ==
    \A y \in Scopes : \A name \in Names :
        /\ LET v == Value(scopes[y].ctx0, name) IN
           v # Nil =>
             \A k \in Scopes :
                IsAncestor(y, k) =>
                   /\ Value(scopes[k].ctx0, name) = v
                   /\ Parameter(scopes[k], name) = [value |-> v, ok |-> TRUE]
        /\ Discovered(y, name) =>
             \A k \in Scopes :
                (k # y /\ IsAncestor(y, k)) =>
                   LET x == ChildToward(y, k) IN
                   Value(scopes[x].ctx0, name) # Nil =>
                      IF ExhaustionFor(x, y, name)
                      THEN /\ Bound(k, name) = scopes[x].opt
                           /\ scopes[x].opt # Bound(y, name)
                      ELSE Bound(k, name) = Bound(y, name)

\* A scope created with p bound discovers q; its exhaustion sub-run for q
\* has run with another value of q and the same value of p.
C13_Witness ==
    \E y, x \in Scopes : \E p, q \in Names :
        /\ Value(scopes[y].ctx0, p) # Nil
        /\ Discovered(y, q)
        /\ ExhaustionFor(x, y, q)
        /\ Bound(x, q) = scopes[x].opt
        /\ Bound(x, q) # Bound(y, q)
        /\ Bound(x, p) = Value(scopes[y].ctx0, p)
        /\ scopes[x].status # "running"

----------------------------------------------------------------------------

\* The step changes the context of scope s.
Rebinds(s) == scopes'[s].ctx # scopes[s].ctx

\* Scope k comes into being in the step.
Spawned(k) == k \in (1..Len(scopes')) \ (1..Len(scopes))

\* C14: a step that changes a scope's context is a Select call of the scope
\* that is executing, and it changes that scope alone: its parent, its
\* siblings and the children it spawned earlier are what they were, and no
\* scope's creation context ever changes. A scope spawned by S (Plan, Run or
\* exhaustion) starts from the bindings S has at that moment: every name
\* bound in S is bound in the child, to S's value, or, in an exhaustion
\* sub-run for that name, to the sub-run's option; a name unbound in S is
\* unbound in the child.
C14_ContextIsolation ==
    [][ /\ \A s \in 1..Len(scopes) :
              /\ scopes'[s].ctx0 = scopes[s].ctx0
              /\ Rebinds(s) =>
                    /\ s = Active
                    /\ InBody(scopes[s], "Select")
                    /\ Len(scopes') = Len(scopes)
                    /\ \A k \in 1..Len(scopes) : k # s => scopes'[k] = scopes[k]
        /\ \A k \in 1..Len(scopes') :
              Spawned(k) =>
                 LET S == scopes'[k].parent IN
                 /\ S = Active
                 /\ scopes'[k].ctx = scopes'[k].ctx0
                 /\ \A name \in Names :
                       Value(scopes'[k].ctx0, name) =
                          IF /\ scopes'[k].via = "exhaust"
                             /\ scopes[S].parameterSelection.name = name
                          THEN scopes'[k].opt
                          ELSE Bound(S, name)
      ]_vars

\* Scope S spawned a child, then bound a name, then spawned another child:
\* the name is unbound in S's parent and in the first child, and bound to S's
\* value in the second.
C14_Witness ==
    \E S, k1, k2 \in Scopes : \E name \in Names :
        /\ Discovered(S, name)
        /\ scopes[S].parent # 0
        /\ Bound(scopes[S].parent, name) = Nil
        /\ k1 < k2
        /\ scopes[k1].parent = S
        /\ scopes[k2].parent = S
        /\ scopes[k2].via # "exhaust"
        /\ Value(scopes[k1].ctx0, name) = Nil
        /\ Bound(k1, name) = Nil
        /\ Value(scopes[k2].ctx0, name) = Bound(S, name)

----------------------------------------------------------------------------
(* Concurrent Select calls on one scope *)

\* Mutant of LockFree: Select takes the read side of the lock, which does not
\* keep other callers out.
LockFreeShared(imp) == TRUE

\* imp.ctxLock.Lock() can go through: nobody holds the lock.
LockFree(imp) == imp.ctxLock = 0

\* imp.ctxLock.Lock()
SelectLock(g) ==
    /\ At(g, "Select", "call")
    /\ LockFree(scopes[1])
    /\ scopes' = [scopes EXCEPT ![1].ctxLock = g]
    /\ goroutines' = [goroutines EXCEPT ![g].pc = "read"]
    /\ UNCHANGED <<entry, calls, panicked, constructed>>

\* current := imp.ctx.Value(parameterCtxKey(name)), line 180
SelectRead(g) ==
    /\ At(g, "Select", "read")
    /\ goroutines' = [goroutines EXCEPT ![g].pc = "decide", ![g].seen = scopes[1].ctx]
    /\ UNCHANGED <<entry, scopes, calls, panicked, constructed>>

\* The scope after a goroutine's Select call ended with r: T.Fatalf and
\* T.Skipf mark the test and end the calling goroutine only; a panic leaves
\* the scope as it is and starts unwinding the goroutine.
AfterGoroutineSelect(imp, r) ==
    [imp EXCEPT !.ctx = r.ctx, !.parameterSelection = r.parameterSelection,
                !.failed = @ \/ r.outcome = "fatal",
                !.skipped = @ \/ r.outcome = "skip"]

\* Lines 181-212 on the value read at line 180.
SelectDecide(g) ==
    /\ At(g, "Select", "decide")
    /\ LET imp == scopes[1]
           r == Select([imp EXCEPT !.ctx = goroutines[g].seen],
                       goroutines[g].name, goroutines[g].options)
       IN /\ scopes' = [scopes EXCEPT ![1] = AfterGoroutineSelect(imp, r)]
          /\ calls' = Append(calls, [scope |-> 1, name |-> goroutines[g].name,
                                     options |-> goroutines[g].options,
                                     before |-> imp, r |-> r,
                                     after |-> AfterGoroutineSelect(imp, r)])
          /\ goroutines' = [goroutines EXCEPT ![g].pc = "unlock",
                                              ![g].outcome = r.outcome,
                                              ![g].value = r.value]
    /\ UNCHANGED <<entry, panicked, constructed>>

\* The deferred imp.ctxLock.Unlock(), also run when the goroutine exits or
\* unwinds in a panic.
SelectUnlock(g) ==
    /\ At(g, "Select", "unlock")
    /\ scopes' = [scopes EXCEPT ![1].ctxLock = 0]
    /\ goroutines' = [goroutines EXCEPT
                        ![g].pc = IF goroutines[g].outcome = "panic" THEN "panicking"
                                  ELSE "done"]
    /\ UNCHANGED <<entry, calls, panicked, constructed>>

\* The panic of line 191 has unwound the goroutine: the runtime ends the
\* process. Until then the other goroutines run on.
PanicExit(g) ==
    /\ At(g, "Select", "panicking")
    /\ panicked' = TRUE
    /\ UNCHANGED <<entry, scopes, calls, goroutines, constructed>>

\* One scope, with a selector in its context or with the nil one Plan stores,
\* and up to MaxGoroutines goroutines that each call Select on it for the
\* same, unbound, name.
SelectInit ==
    /\ \E selector \in Selectors \cup {Nil} :
          /\ entry = IF selector = Nil THEN "Plan" ELSE "Scope"
          /\ scopes = <<SharedScope(selector)>>
    /\ calls = <<>>
    /\ panicked = FALSE
    /\ constructed = 0
    /\ \E n \in 1..MaxGoroutines : \E name \in Names :
          goroutines \in [1..n -> {Goroutine("Select", i.name, i.options) :
                                      i \in {j \in Selects : j.name = name}}]

SelectNext ==
    \E g \in 1..MaxGoroutines :
        SelectLock(g) \/ SelectRead(g) \/ SelectDecide(g) \/ SelectUnlock(g)
        \/ PanicExit(g)

SelectSpec == SelectInit /\ [][SelectNext]_vars


\* The calls that consulted the selector, and the ones that created a binding.
Consulting == {c \in Calls : calls[c].r.consulted}
Binding == {c \in Calls : calls[c].r.consulted /\ calls[c].r.outcome = "return"}

\* Every goroutine is through with its call.
AllDone == \A g \in 1..Len(goroutines) : goroutines[g].pc = "done"

\* The goroutines all present the options of the first, and the selector's
\* answer to them is a valid non-empty list.
SameCall ==
    /\ scopes[1].ctx.selector # Nil
    /\ \A g \in 1..Len(goroutines) : goroutines[g].options = goroutines[1].options
    /\ LET s == SelectorSelect(scopes[1].ctx.selector, goroutines[1].name,
                               goroutines[1].options)
       IN Len(s) > 0 /\ ValidSelection(goroutines[1].options, s)

\* C15 as stated: of the concurrent calls for one unbound name, exactly one
\* consults the selector and creates the binding, and all of them return the
\* same value.
C15_ConsultedOnceAllReturn ==
    /\ Cardinality(Consulting) <= 1
    /\ AllDone =>
          /\ Cardinality(Binding) = 1
          /\ \A g \in 1..Len(goroutines) :
                /\ goroutines[g].outcome = "return"
                /\ goroutines[g].value = goroutines[1].value

\* C15: the calls are serialised by the scope's lock; at most one of them
\* creates the binding, a call consults the selector only while the name is
\* unbound in the scope, so none does after the binding was created, and
\* every call that returns returns the value bound in the scope. When the
\* goroutines make the same call and the selector answers it with a valid
\* non-empty list, exactly one call consults and every call returns.
C15_ConsultedOncePerBinding ==
    /\ Cardinality(Binding) <= 1
    /\ \A c \in Calls :
          /\ calls[c].r.consulted => Value(calls[c].before.ctx, calls[c].name) = Nil
          /\ \A d \in Calls : (d \in Binding /\ d < c) => ~calls[c].r.consulted
          /\ calls[c].r.outcome = "return" =>
                /\ calls[c].r.value = Bound(1, calls[c].name)
                /\ Binding # {}
    /\ \A g, h \in 1..Len(goroutines) :
          (goroutines[g].outcome = "return" /\ goroutines[h].outcome = "return") =>
             goroutines[g].value = goroutines[h].value
    /\ (AllDone /\ SameCall) =>
          /\ Cardinality(Consulting) = 1
          /\ \A g \in 1..Len(goroutines) : goroutines[g].outcome = "return"

\* Three goroutines made the same call: one consulted the selector and bound
\* the name, the others returned the value it bound.
C15_Witness ==
    /\ Len(goroutines) >= 3
    /\ AllDone
    /\ SameCall
    /\ Cardinality(Binding) = 1
    /\ \E c \in Calls : ~calls[c].r.consulted /\ calls[c].r.outcome = "return"
    /\ \A g \in 1..Len(goroutines) : goroutines[g].value = Bound(1, goroutines[g].name)

----------------------------------------------------------------------------

\* C16: every scope of a run started by the package function Plan carries a
\* non-nil ParameterSelector in the selector slot of its context, and no
\* Select call of such a run fails for want of a selector.
C16_SelectorPresent ==
    entry = "Plan" =>
       /\ \A s \in Scopes : scopes[s].ctx.selector # Nil
       /\ \A c \in Calls : calls[c].r.outcome # "panic"
       /\ ~panicked

----------------------------------------------------------------------------
(* Cancellation *)

\* t.Cleanup(cancel): the scope's cancel function has run, which the testing
\* package does when the scope's test is over, before T.Run returns.
Cancelled(s) == scopes[s].status # "running"

\* ctx.Done() is closed: the cancel function of the context or of one of the
\* contexts it descends from has run.
Done(ctx) == \E k \in 1..Len(ctx.cancel) : Cancelled(ctx.cancel[k])

\* C17: the context of every scope, the one it was created with and the one
\* it has after its Select calls, is the cancellable context made for that
\* scope out of the context of the scope that spawned it (Plan, Run and
\* exhaustion alike; the root's descends from nothing); so whenever the
\* context of a scope is cancelled, the contexts of all scopes in its subtree
\* are cancelled.
C17_CancellationDerivation ==
    /\ \A s \in Scopes :
          /\ scopes[s].ctx.cancel = scopes[s].ctx0.cancel
          /\ scopes[s].ctx.cancel =
                IF scopes[s].parent = 0 THEN <<s>>
                ELSE Append(scopes[scopes[s].parent].ctx.cancel, s)
    /\ \A s, y \in Scopes :
          (IsAncestor(s, y) /\ Done(scopes[s].ctx)) => Done(scopes[y].ctx)

\* A scope that bound a name, spawned a nested scope and an exhaustion
\* sub-run, and is over: its context and theirs are cancelled while the
\* root's is not.
C17_Witness ==
    \E s, k, x \in Scopes :
        /\ Done(scopes[s].ctx)
        /\ scopes[s].ctx # scopes[s].ctx0
        /\ scopes[k].parent = s
        /\ scopes[k].via \in {"Plan", "Run"}
        /\ scopes[x].parent = s
        /\ scopes[x].via = "exhaust"
        /\ Done(scopes[k].ctx)
        /\ Done(scopes[x].ctx)
        /\ ~Done(scopes[1].ctx)

----------------------------------------------------------------------------

\* C18: a scope with a selection record {name, options} has name bound in
\* its own context to one of options; hence exhaust never finds the recorded
\* name unbound, and no scope fails in its exhaustion.
C18_RecordedNameBound ==
    \A s \in Scopes :
        /\ scopes[s].parameterSelection.name # Nil =>
              /\ Bound(s, scopes[s].parameterSelection.name) # Nil
              /\ Contains(scopes[s].parameterSelection.options,
                          Bound(s, scopes[s].parameterSelection.name))
        /\ ExhaustStep(scopes[s]) # "fatal"
        /\ (scopes[s].phase = "exhaust" /\ scopes[s].status # "running") => panicked

\* A scope with a record of several options is in its exhaustion, past the
\* default option, a sub-run started.
C18_Witness ==
    \E s \in Scopes :
        /\ scopes[s].phase = "exhaust"
        /\ Len(scopes[s].parameterSelection.options) >= 2
        /\ scopes[s].i > 2
        /\ ExhaustRuns(s) # {}
        /\ Bound(s, scopes[s].parameterSelection.name) = scopes[s].parameterSelection.options[1]

----------------------------------------------------------------------------

\* The body of scope s was ended by a Select call (fatal failure or skip).
AbortedInSelect(s) ==
    \E c \in Calls : calls[c].scope = s /\ calls[c].r.outcome \in {"fatal", "skip"}

\* C19: a scope has exhaustion sub-runs only if its body made its last call
\* and returned; a scope that is over with its body unfinished (ended by a
\* fatal failure or a skip, in Select or by the body itself) has none,
\* whatever it had recorded, now and in every later state.
C19_ExhaustionOnlyAfterReturn ==
    \A s \in Scopes :
        /\ ExhaustRuns(s) # {} =>
              /\ BodyDone(scopes[s])
              /\ scopes[s].phase \in {"exhaust", "done"}
              /\ ~AbortedInSelect(s)
        /\ AbortedInSelect(s) =>
              /\ scopes[s].status \in {"failed", "skipped"}
              /\ scopes[s].phase = "body"
              /\ ~BodyDone(scopes[s])
        /\ (scopes[s].status # "running" /\ scopes[s].phase = "body") =>
              /\ ExhaustRuns(s) = {}
              /\ (~panicked => ~BodyDone(scopes[s]))

\* The whole run is over; the body of a Plan scope was aborted after the
\* scope had recorded a parameter with options left to exhaust.
C19_Witness ==
    /\ Finished
    /\ \E s \in Scopes :
          /\ scopes[s].kind = "plan"
          /\ scopes[s].phase = "body"
          /\ scopes[s].status \in {"failed", "skipped"}
          /\ Len(scopes[s].parameterSelection.options) >= 2
          /\ ExhaustRuns(s) = {}

----------------------------------------------------------------------------
(* Termination *)

\* The goroutine that can run does run.
FairSpec == Spec /\ WF_vars(Next)

ExhaustChain(s) == {x \in Scopes : IsAncestor(x, s) /\ scopes[x].via = "exhaust"}

\* The name an exhaustion sub-run rebinds.
Rebound(x) == scopes[scopes[x].parent].parameterSelection.name

\* C20: the run started by the entry point comes to an end (every scope is
\* over, or the process has died); each exhaustion sub-run rebinds a name
\* that was unbound in the context its discovering scope was created with,
\* the sub-runs nested in one another rebind different names, and so the
\* number of exhaustion sub-runs on the path to any scope is at most the
\* number of parameter names.
C20_Termination ==
    /\ <>(~Busy)
    /\ [](\A s \in Scopes :
            /\ Cardinality(ExhaustChain(s)) <= Cardinality(Names)
            /\ \A x \in ExhaustChain(s) :
                  /\ Value(scopes[scopes[x].parent].ctx0, Rebound(x)) = Nil
                  /\ \A z \in ExhaustChain(s) : Rebound(z) = Rebound(x) => z = x)

\* The run is over, and it had an exhaustion sub-run nested in another, as
\* many as there are names.
C20_Witness ==
    /\ Finished
    /\ \E s \in Scopes : Cardinality(ExhaustChain(s)) = Cardinality(Names)

====
